---- MODULE Spec2Model ----
(***************************************************************************)
(* Model of the chat gateway (index.js): WebSocket sessions joining rooms, *)
(* the Redis presence sets, the Redis pub/sub fan-out and the per-process  *)
(* connection registry.  Several gateway processes share one Redis.        *)
(*                                                                         *)
(* Every `await` of a handler is a step boundary.  A Redis command issued  *)
(* on one of a process's three connections (pub, sub, cli) is queued on    *)
(* that connection and is executed, and its continuation resumed, in issue *)
(* order (one TCP connection, pipelined replies).  A step of the model is  *)
(* "the command at the head of a connection executes at Redis and the      *)
(* awaiting handler runs up to its next await".                            *)
(***************************************************************************)
EXTENDS Integers, Sequences, FiniteSets, TLC

(* ---------------- bounds ---------------- *)
MaxSessions == 2
NumProcs == 2
MaxFrames == 1
MaxFailures == 1
MaxEvents == 2

Sessions == 1..MaxSessions
Procs == 1..NumProcs
RoomList == <<"dev", "ops">>
UserList == <<"alice", "bob">>
Rooms == {RoomList[i] : i \in DOMAIN RoomList}
Users == {UserList[i] : i \in DOMAIN UserList}

VARIABLES
    wsState,         \* ws.readyState of each connection: NONE (not yet connected), OPEN, CLOSED
    token,           \* the token query parameter of each connection request
    meta,            \* the value stored in `clients` for a connection: id, room, username (+ its process)
    clients,         \* per process: the keys of the `clients` Map
    subscribedRooms, \* per process: the `subscribedRooms` Set (of channel names)
    joinPc,          \* where the wss.on("connection") handler of a session stands
    closePc,         \* where the ws.on("close") handler of a session stands
    handlers,        \* whether ws.on("message") / ws.on("close") are registered
    subQ, cliQ, pubQ,\* per process: commands awaiting Redis on the sub / cli / pub connection
    redisSets,       \* Redis: key -> set (the presence store)
    redisSubs,       \* Redis: per process (its sub connection), the channels subscribed
    busQ,            \* per process: messages Redis has pushed on the sub connection, not yet handled
    inbox,           \* per connection: what ws.send has written to it, in order
    msgTasks,        \* in-flight ws.on("message") invocations awaiting Message.create
    history,         \* the Message collection (documents created)
    nextId,          \* uuidv4(): ids handed out so far
    now,             \* Date.now()
    frames,          \* inbound frames handled so far
    frameLog,        \* history: the inbound frames handled, in receipt order
    failures,        \* broker / store failures so far
    pubLog,          \* history: every publish Redis executed, in order
    closeRuns,       \* history: how often the close handler of a session ran
    joinErr,         \* history: the join of the session threw into the catch block
    persistErr,      \* history: chat messages whose Message.create rejected
    chatLog,         \* history: the chatMessage objects the gateway built
    window,          \* history: per session, the set right before its last SADD / SREM,
                     \*   kept while no other session has changed that set since
    subCount         \* history: per process and channel, the SUBSCRIBE commands executed

vars == <<wsState, token, meta, clients, subscribedRooms, joinPc, closePc, handlers,
          subQ, cliQ, pubQ, redisSets, redisSubs, busQ, inbox, msgTasks, history,
          nextId, now, frames, frameLog, failures, pubLog, closeRuns, joinErr, persistErr,
          chatLog, window, subCount>>

(* ---------------- helpers of index.js ---------------- *)
redisRoomChannel(room) == <<"room", room, "channel">>

redisRoomUsersKey(room) == <<"room", room, "users">>

\* JSON text of an object: its set of key/value entries
JSONstringify(obj) == {<<k, obj[k]>> : k \in DOMAIN obj}

JSONparse(str) == [k \in {e[1] : e \in str} |-> (CHOOSE e \in str : e[1] = k)[2]]

\* (variant: a token that fails verification is accepted)
jwtVerify_lax(tok) == tok # "missing"

\* jwt.verify(token, secret): succeeds on a token signed for a user
jwtVerify(tok) == tok \in Users

NoMeta == [id |-> 0, room |-> "", username |-> "", proc |-> 0]

procOf(s) == meta[s].proc

\* Processes, rooms and users are interchangeable: a new connection uses one already
\* in use or the next unused one of the list (every behaviour is a renaming of these)
UpTo(list, used) ==
    {list[i] : i \in {j \in DOMAIN list : j <= Cardinality(used) + 1}}

procsUsed == {meta[t].proc : t \in Sessions} \ {0}

roomsUsed == {meta[t].room : t \in Sessions} \ {""}

usersUsed == {meta[t].username : t \in Sessions} \ {""}

\* the token query parameter: absent, not verifiable, or signed for a user
Tokens == {"missing", "invalid"} \cup UpTo(UserList, usersUsed)

\* a frame written to the connection; seq is the publish it forwards (0: none)
written(box, s, seq, data) == [box EXCEPT ![s] = Append(@, [seq |-> seq, data |-> data])]

\* (variant: the frame is written twice)
wsSend_twice(box, s, seq, data) ==
    IF wsState[s] = "OPEN" THEN written(written(box, s, seq, data), s, seq, data) ELSE box

\* ws.send(data): written to an OPEN socket, dropped on a closing / closed one
wsSend(box, s, seq, data) ==
    IF wsState[s] = "OPEN" THEN written(box, s, seq, data) ELSE box

\* `x || d` on a field of a parsed frame: d when the field is absent or ""
orDefault(obj, k, d) == IF k \in DOMAIN obj /\ obj[k] # "" THEN obj[k] ELSE d

\* Redis SADD / SREM on a set
sadd(set, member) == set \cup {member}

\* (variant: the removal is lost)
srem_lost(set, member) == set

srem(set, member) == set \ {member}

\* the presence event built by addUserToRoom / removeUserFromRoom
presenceEvent(room, users) ==
    [type |-> "presence", action |-> "update", room |-> room, users |-> users]

\* history: session s changes the set under `key`, which held `pre`; the windows of
\* the other sessions on that key end
NoWindow == [open |-> FALSE, pre |-> {}]

mutated(s, key, pre) ==
    [t \in Sessions |->
        IF t = s THEN [open |-> TRUE, pre |-> pre]
        ELSE IF redisRoomUsersKey(meta[t].room) = key THEN NoWindow
        ELSE window[t]]

\* a command appended to a connection's pipeline
issue(q, p, cmd) == [q EXCEPT ![p] = Append(@, cmd)]

\* the reply at the head of a connection's pipeline is consumed
reply(q, p) == [q EXCEPT ![p] = Tail(@)]

Init ==
    /\ wsState = [s \in Sessions |-> "NONE"]
    /\ token = [s \in Sessions |-> ""]
    /\ meta = [s \in Sessions |-> NoMeta]
    /\ clients = [p \in Procs |-> {}]
    /\ subscribedRooms = [p \in Procs |-> {}]
    /\ joinPc = [s \in Sessions |-> "none"]
    /\ closePc = [s \in Sessions |-> "idle"]
    /\ handlers = [s \in Sessions |-> FALSE]
    /\ subQ = [p \in Procs |-> <<>>]
    /\ cliQ = [p \in Procs |-> <<>>]
    /\ pubQ = [p \in Procs |-> <<>>]
    /\ redisSets = [k \in {redisRoomUsersKey(r) : r \in Rooms} |-> {}]
    /\ redisSubs = [p \in Procs |-> {}]
    /\ busQ = [p \in Procs |-> <<>>]
    /\ inbox = [s \in Sessions |-> <<>>]
    /\ msgTasks = {}
    /\ history = <<>>
    /\ nextId = 0
    /\ now = 0
    /\ frames = 0
    /\ frameLog = <<>>
    /\ failures = 0
    /\ pubLog = <<>>
    /\ closeRuns = [s \in Sessions |-> 0]
    /\ joinErr = [s \in Sessions |-> FALSE]
    /\ persistErr = {}
    /\ chatLog = {}
    /\ window = [s \in Sessions |-> NoWindow]
    /\ subCount = [p \in Procs |-> [c \in {redisRoomChannel(r) : r \in Rooms} |-> 0]]

(* ---------------- wss.on("connection") ---------------- *)
\* lines 156-183: parse the request, verify the token, register, ensureSubscribed.
\* Connections are numbered in arrival order.
Connection(s) ==
    /\ joinPc[s] = "none"
    /\ \A t \in Sessions : t < s => joinPc[t] # "none"
    /\ \E p \in UpTo([i \in Procs |-> i], procsUsed),
          room \in UpTo(RoomList, roomsUsed),
          tok \in Tokens :
        /\ token' = [token EXCEPT ![s] = tok]
        /\ IF ~jwtVerify(tok)
           THEN /\ inbox' = written(inbox, s, 0, JSONstringify(
                       [type |-> "error",
                        message |-> IF tok = "missing" THEN "Token missing"
                                    ELSE "Invalid token"]))
                /\ wsState' = [wsState EXCEPT ![s] = "CLOSED"]
                /\ joinPc' = [joinPc EXCEPT ![s] = "rejected"]
                /\ UNCHANGED <<meta, clients, subQ, cliQ, nextId>>
           ELSE /\ wsState' = [wsState EXCEPT ![s] = "OPEN"]
                /\ nextId' = nextId + 1
                /\ meta' = [meta EXCEPT ![s] =
                       [id |-> nextId + 1, room |-> room, username |-> tok, proc |-> p]]
                /\ clients' = [clients EXCEPT ![p] = @ \cup {s}]
                /\ IF redisRoomChannel(room) \in subscribedRooms[p]
                   THEN /\ joinPc' = [joinPc EXCEPT ![s] = "sadd"]
                        /\ cliQ' = issue(cliQ, p, <<"join", s>>)
                        /\ subQ' = subQ
                   ELSE /\ joinPc' = [joinPc EXCEPT ![s] = "subscribe"]
                        /\ subQ' = issue(subQ, p, s)
                        /\ cliQ' = cliQ
                /\ inbox' = inbox
    /\ UNCHANGED <<subscribedRooms, closePc, handlers, pubQ, redisSets, redisSubs, busQ,
                   msgTasks, history, now, frames, frameLog, failures, pubLog, closeRuns,
                   joinErr, persistErr, chatLog, window, subCount>>

\* (variant: the channel is marked subscribed although the broker did not subscribe)
ensureSubscribed_unconfirmed(s) ==
    /\ joinPc[s] = "subscribe"
    /\ subQ[procOf(s)] # <<>> /\ Head(subQ[procOf(s)]) = s
    /\ LET p == procOf(s)
           channel == redisRoomChannel(meta[s].room)
       IN  /\ subCount' = [subCount EXCEPT ![p][channel] = @ + 1]
           /\ subscribedRooms' = [subscribedRooms EXCEPT ![p] = @ \cup {channel}]
           /\ subQ' = reply(subQ, p)
           /\ cliQ' = issue(cliQ, p, <<"join", s>>)
    /\ joinPc' = [joinPc EXCEPT ![s] = "sadd"]
    /\ UNCHANGED <<wsState, token, meta, clients, closePc, handlers, pubQ, redisSets,
                   redisSubs, busQ, inbox, msgTasks, history, nextId, now, frames,
                   frameLog, failures, pubLog, closeRuns, joinErr, persistErr, chatLog,
                   window>>

\* lines 108-109, 184, 114: sub.subscribe replied; subscribedRooms.add; cli.sadd issued
ensureSubscribed(s) ==
    /\ joinPc[s] = "subscribe"
    /\ subQ[procOf(s)] # <<>> /\ Head(subQ[procOf(s)]) = s
    /\ LET p == procOf(s)
           channel == redisRoomChannel(meta[s].room)
       IN  /\ redisSubs' = [redisSubs EXCEPT ![p] = @ \cup {channel}]
           /\ subCount' = [subCount EXCEPT ![p][channel] = @ + 1]
           /\ subscribedRooms' = [subscribedRooms EXCEPT ![p] = @ \cup {channel}]
           /\ subQ' = reply(subQ, p)
           /\ cliQ' = issue(cliQ, p, <<"join", s>>)
    /\ joinPc' = [joinPc EXCEPT ![s] = "sadd"]
    /\ UNCHANGED <<wsState, token, meta, clients, closePc, handlers, pubQ, redisSets, busQ,
                   inbox, msgTasks, history, nextId, now, frames, frameLog, failures,
                   pubLog, closeRuns, joinErr, persistErr, chatLog, window>>

\* lines 114-115: cli.sadd executed; cli.smembers issued
addUserSadd(s) ==
    /\ joinPc[s] = "sadd"
    /\ cliQ[procOf(s)] # <<>> /\ Head(cliQ[procOf(s)]) = <<"join", s>>
    /\ LET p == procOf(s)
           key == redisRoomUsersKey(meta[s].room)
       IN  /\ redisSets' = [redisSets EXCEPT ![key] = sadd(@, meta[s].username)]
           /\ window' = mutated(s, key, redisSets[key])
           /\ cliQ' = issue(reply(cliQ, p), p, <<"join", s>>)
    /\ joinPc' = [joinPc EXCEPT ![s] = "smembers"]
    /\ UNCHANGED <<wsState, token, meta, clients, subscribedRooms, closePc, handlers, subQ,
                   pubQ, redisSubs, busQ, inbox, msgTasks, history, nextId, now, frames,
                   frameLog, failures, pubLog, closeRuns, joinErr, persistErr, chatLog,
                   subCount>>

\* lines 115-125: cli.smembers replied; pub.publish of the presence event issued
addUserSmembers(s) ==
    /\ joinPc[s] = "smembers"
    /\ cliQ[procOf(s)] # <<>> /\ Head(cliQ[procOf(s)]) = <<"join", s>>
    /\ LET p == procOf(s)
           room == meta[s].room
           users == redisSets[redisRoomUsersKey(room)]
       IN  /\ cliQ' = reply(cliQ, p)
           /\ pubQ' = issue(pubQ, p,
                  [kind |-> "join", s |-> s, n |-> 0, channel |-> redisRoomChannel(room),
                   message |-> JSONstringify(presenceEvent(room, users))])
    /\ joinPc' = [joinPc EXCEPT ![s] = "publish"]
    /\ UNCHANGED <<wsState, token, meta, clients, subscribedRooms, closePc, handlers, subQ,
                   redisSets, redisSubs, busQ, inbox, msgTasks, history, nextId, now,
                   frames, frameLog, failures, pubLog, closeRuns, joinErr, persistErr,
                   chatLog, window, subCount>>

\* (variant: one copy per SUBSCRIBE the connection has sent for the channel)
Fanout_perSubscribe(q, seq, cmd) ==
    [p \in Procs |->
        q[p] \o [i \in 1..subCount[p][cmd.channel] |-> [seq |-> seq, data |-> cmd.message]]]

\* Redis PUBLISH: one copy pushed to every sub connection subscribed to the channel
Fanout(q, seq, cmd) ==
    [p \in Procs |-> IF cmd.channel \in redisSubs[p]
                     THEN Append(q[p], [seq |-> seq, data |-> cmd.message])
                     ELSE q[p]]

\* the publish at the head of p's pub connection executes
Published(p) ==
    LET cmd == Head(pubQ[p])
        seq == Len(pubLog) + 1
    IN  /\ busQ' = Fanout(busQ, seq, cmd)
        /\ pubLog' = Append(pubLog, [seq |-> seq, proc |-> p, kind |-> cmd.kind,
                                     s |-> cmd.s, n |-> cmd.n, channel |-> cmd.channel,
                                     message |-> cmd.message])
        /\ pubQ' = reply(pubQ, p)

\* lines 117-125, 186: pub.publish replied; cli.smembers for the welcome issued
addUserPublish(s) ==
    /\ joinPc[s] = "publish"
    /\ pubQ[procOf(s)] # <<>>
    /\ Head(pubQ[procOf(s)]).kind = "join" /\ Head(pubQ[procOf(s)]).s = s
    /\ Published(procOf(s))
    /\ cliQ' = issue(cliQ, procOf(s), <<"join", s>>)
    /\ joinPc' = [joinPc EXCEPT ![s] = "welcome"]
    /\ UNCHANGED <<wsState, token, meta, clients, subscribedRooms, closePc, handlers, subQ,
                   redisSets, redisSubs, inbox, msgTasks, history, nextId, now, frames,
                   frameLog, failures, closeRuns, joinErr, persistErr, chatLog, window,
                   subCount>>

\* lines 186-256: cli.smembers replied; welcome sent; message / close / error handlers
\* registered.  On a socket that closed meanwhile ws.send writes nothing and the
\* handlers are registered after the 'close' event was emitted.
welcome(s) ==
    /\ joinPc[s] = "welcome"
    /\ cliQ[procOf(s)] # <<>> /\ Head(cliQ[procOf(s)]) = <<"join", s>>
    /\ LET room == meta[s].room
           currentUsers == redisSets[redisRoomUsersKey(room)]
       IN  /\ cliQ' = reply(cliQ, procOf(s))
           /\ inbox' = wsSend(inbox, s, 0, JSONstringify(
                  [type |-> "system", subtype |-> "welcome", id |-> meta[s].id,
                   room |-> room, users |-> currentUsers, ts |-> now]))
    /\ handlers' = [handlers EXCEPT ![s] = TRUE]
    /\ joinPc' = [joinPc EXCEPT ![s] = "joined"]
    /\ UNCHANGED <<wsState, token, meta, clients, subscribedRooms, closePc, subQ, pubQ,
                   redisSets, redisSubs, busQ, msgTasks, history, nextId, now, frames,
                   frameLog, failures, pubLog, closeRuns, joinErr, persistErr, chatLog,
                   window, subCount>>

\* lines 257-259: the awaited Redis command of the join rejects (it did not execute);
\* the catch block logs
joinCatch(s) ==
    /\ failures < MaxFailures
    /\ LET p == procOf(s)
       IN  \/ /\ joinPc[s] = "subscribe"
              /\ subQ[p] # <<>> /\ Head(subQ[p]) = s
              /\ subQ' = reply(subQ, p)
              /\ UNCHANGED <<cliQ, pubQ>>
           \/ /\ joinPc[s] \in {"sadd", "smembers", "welcome"}
              /\ cliQ[p] # <<>> /\ Head(cliQ[p]) = <<"join", s>>
              /\ cliQ' = reply(cliQ, p)
              /\ UNCHANGED <<subQ, pubQ>>
           \/ /\ joinPc[s] = "publish"
              /\ pubQ[p] # <<>> /\ Head(pubQ[p]).kind = "join" /\ Head(pubQ[p]).s = s
              /\ pubQ' = reply(pubQ, p)
              /\ UNCHANGED <<subQ, cliQ>>
    /\ failures' = failures + 1
    /\ joinPc' = [joinPc EXCEPT ![s] = "failed"]
    /\ joinErr' = [joinErr EXCEPT ![s] = TRUE]
    /\ UNCHANGED <<wsState, token, meta, clients, subscribedRooms, closePc, handlers,
                   redisSets, redisSubs, busQ, inbox, msgTasks, history, nextId, now,
                   frames, frameLog, pubLog, closeRuns, persistErr, chatLog, window,
                   subCount>>

(* ---------------- ws.on("close") ---------------- *)
\* the transport closes: the 'close' event is emitted, and lines 249-251 run if the
\* close handler is registered by then
close(s) ==
    /\ wsState[s] = "OPEN"
    /\ wsState' = [wsState EXCEPT ![s] = "CLOSED"]
    /\ IF handlers[s]
       THEN /\ clients' = [clients EXCEPT ![procOf(s)] = @ \ {s}]
            /\ cliQ' = issue(cliQ, procOf(s), <<"close", s>>)
            /\ closePc' = [closePc EXCEPT ![s] = "srem"]
            /\ closeRuns' = [closeRuns EXCEPT ![s] = @ + 1]
       ELSE UNCHANGED <<clients, cliQ, closePc, closeRuns>>
    /\ UNCHANGED <<token, meta, subscribedRooms, joinPc, handlers, subQ, pubQ, redisSets,
                   redisSubs, busQ, inbox, msgTasks, history, nextId, now, frames,
                   frameLog, failures, pubLog, joinErr, persistErr, chatLog, window,
                   subCount>>

\* lines 129-130: cli.srem executed; cli.smembers issued
removeUserSrem(s) ==
    /\ closePc[s] = "srem"
    /\ cliQ[procOf(s)] # <<>> /\ Head(cliQ[procOf(s)]) = <<"close", s>>
    /\ LET p == procOf(s)
           key == redisRoomUsersKey(meta[s].room)
       IN  /\ redisSets' = [redisSets EXCEPT ![key] = srem(@, meta[s].username)]
           /\ window' = mutated(s, key, redisSets[key])
           /\ cliQ' = issue(reply(cliQ, p), p, <<"close", s>>)
    /\ closePc' = [closePc EXCEPT ![s] = "smembers"]
    /\ UNCHANGED <<wsState, token, meta, clients, subscribedRooms, joinPc, handlers, subQ,
                   pubQ, redisSubs, busQ, inbox, msgTasks, history, nextId, now, frames,
                   frameLog, failures, pubLog, closeRuns, joinErr, persistErr, chatLog,
                   subCount>>

\* lines 130-140: cli.smembers replied; pub.publish of the presence event issued
removeUserSmembers(s) ==
    /\ closePc[s] = "smembers"
    /\ cliQ[procOf(s)] # <<>> /\ Head(cliQ[procOf(s)]) = <<"close", s>>
    /\ LET p == procOf(s)
           room == meta[s].room
           users == redisSets[redisRoomUsersKey(room)]
       IN  /\ cliQ' = reply(cliQ, p)
           /\ pubQ' = issue(pubQ, p,
                  [kind |-> "close", s |-> s, n |-> 0, channel |-> redisRoomChannel(room),
                   message |-> JSONstringify(presenceEvent(room, users))])
           /\ window' = [window EXCEPT ![s] = NoWindow]
    /\ closePc' = [closePc EXCEPT ![s] = "publish"]
    /\ UNCHANGED <<wsState, token, meta, clients, subscribedRooms, joinPc, handlers, subQ,
                   redisSets, redisSubs, busQ, inbox, msgTasks, history, nextId, now,
                   frames, frameLog, failures, pubLog, closeRuns, joinErr, persistErr,
                   chatLog, subCount>>

\* lines 132-140: pub.publish replied; the close handler is finished
removeUserPublish(s) ==
    /\ closePc[s] = "publish"
    /\ pubQ[procOf(s)] # <<>>
    /\ Head(pubQ[procOf(s)]).kind = "close" /\ Head(pubQ[procOf(s)]).s = s
    /\ Published(procOf(s))
    /\ closePc' = [closePc EXCEPT ![s] = "done"]
    /\ UNCHANGED <<wsState, token, meta, clients, subscribedRooms, joinPc, handlers, subQ,
                   cliQ, redisSets, redisSubs, inbox, msgTasks, history, nextId, now,
                   frames, frameLog, failures, closeRuns, joinErr, persistErr, chatLog,
                   window, subCount>>

(* ---------------- ws.on("message"), chat branch ---------------- *)
\* the chat frames a client sends: all fields given (and a user and a room of the
\* client's choosing), or text and messageType left out
ChatFrames ==
    {[type |-> "message", text |-> "hi", messageType |-> "file",
      user |-> "mallory", room |-> "lobby"],
     [type |-> "message"]}

\* lines 220-228: the chatMessage object
chatMessageOf(parsed, id, room, username, ts) ==
    [id |-> id, type |-> "message",
     messageType |-> orDefault(parsed, "messageType", "text"),
     room |-> room, user |-> username,
     text |-> orDefault(parsed, "text", ""), ts |-> ts]

\* lines 199-236: a chat frame arrives (the clock has ticked since the last frame);
\* chatMessage built; Message.create issued
message(s) ==
    /\ handlers[s] /\ wsState[s] = "OPEN"
    /\ frames < MaxFrames
    /\ \E parsed \in ChatFrames :
        LET chatMessage ==
                chatMessageOf(parsed, nextId + 1, meta[s].room, meta[s].username, now + 1)
        IN  /\ msgTasks' = msgTasks \cup
                   {[s |-> s, n |-> frames + 1, chatMessage |-> chatMessage]}
            /\ frameLog' = Append(frameLog, [s |-> s, json |-> TRUE, parsed |-> parsed])
            /\ chatLog' = chatLog \cup {chatMessage}
    /\ now' = now + 1
    /\ nextId' = nextId + 1
    /\ frames' = frames + 1
    /\ UNCHANGED <<wsState, token, meta, clients, subscribedRooms, joinPc, closePc,
                   handlers, subQ, cliQ, pubQ, redisSets, redisSubs, busQ, inbox, history,
                   failures, pubLog, closeRuns, joinErr, persistErr, window, subCount>>

\* lines 230-238: Message.create resolved; pub.publish of the chat message issued
messageCreate(task) ==
    /\ task \in msgTasks
    /\ msgTasks' = msgTasks \ {task}
    /\ LET m == task.chatMessage
       IN  /\ history' = Append(history,
                  [room |-> m.room, user |-> m.user, text |-> m.text, ts |-> m.ts,
                   messageType |-> m.messageType])
           /\ pubQ' = issue(pubQ, procOf(task.s),
                  [kind |-> "message", s |-> task.s, n |-> task.n,
                   channel |-> redisRoomChannel(m.room),
                   message |-> JSONstringify(m)])
    /\ UNCHANGED <<wsState, token, meta, clients, subscribedRooms, joinPc, closePc,
                   handlers, subQ, cliQ, redisSets, redisSubs, busQ, inbox, nextId, now,
                   frames, frameLog, failures, pubLog, closeRuns, joinErr, persistErr,
                   chatLog, window, subCount>>

\* lines 230-236, 244-246: Message.create rejected; the catch block logs
messageCatch(task) ==
    /\ task \in msgTasks
    /\ failures < MaxFailures
    /\ failures' = failures + 1
    /\ msgTasks' = msgTasks \ {task}
    /\ persistErr' = persistErr \cup {task.chatMessage}
    /\ UNCHANGED <<wsState, token, meta, clients, subscribedRooms, joinPc, closePc,
                   handlers, subQ, cliQ, pubQ, redisSets, redisSubs, busQ, inbox, history,
                   nextId, now, frames, frameLog, pubLog, closeRuns, joinErr, chatLog,
                   window, subCount>>

\* line 238: pub.publish of a chat message replied; the handler is finished
messagePublish(p) ==
    /\ pubQ[p] # <<>> /\ Head(pubQ[p]).kind = "message"
    /\ Published(p)
    /\ UNCHANGED <<wsState, token, meta, clients, subscribedRooms, joinPc, closePc,
                   handlers, subQ, cliQ, redisSets, redisSubs, inbox, msgTasks, history,
                   nextId, now, frames, frameLog, failures, closeRuns, joinErr, persistErr,
                   chatLog, window, subCount>>

(* ---------------- ws.on("message"), the other branches ---------------- *)
\* the signalling frames a client sends: a plain offer, and an ICE candidate that
\* carries a sender and a room of the client's choosing
SignalFrames ==
    {[type |-> "webrtc-offer", sdp |-> "v=0"],
     [type |-> "webrtc-ice", candidate |-> "c1", from |-> "mallory", room |-> "lobby",
      user |-> "mallory"]}

\* (variant: the fields of the frame win over the session's room and identity)
signalOf_clientWins(parsed, room, username) ==
    [k \in DOMAIN parsed \cup {"room", "from"} |->
        IF k \in DOMAIN parsed THEN parsed[k]
        ELSE IF k = "room" THEN room ELSE username]

\* lines 208-212: { ...parsed, room, from: username }
signalOf(parsed, room, username) ==
    [k \in DOMAIN parsed \cup {"room", "from"} |->
        IF k = "room" THEN room
        ELSE IF k = "from" THEN username
        ELSE parsed[k]]

\* (variant: published on the channel of the room the frame names)
signalCommand_clientRoom(s, n, parsed) ==
    [kind |-> "signal", s |-> s, n |-> n,
     channel |-> redisRoomChannel(orDefault(parsed, "room", meta[s].room)),
     message |-> JSONstringify(signalOf(parsed, meta[s].room, meta[s].username))]

\* line 213: pub.publish(redisRoomChannel(room), JSON.stringify(signal))
signalCommand(s, n, parsed) ==
    [kind |-> "signal", s |-> s, n |-> n,
     channel |-> redisRoomChannel(meta[s].room),
     message |-> JSONstringify(signalOf(parsed, meta[s].room, meta[s].username))]

\* lines 199-214: a signalling frame arrives; pub.publish of the stamped signal issued
signal(s) ==
    /\ handlers[s] /\ wsState[s] = "OPEN"
    /\ frames < MaxEvents
    /\ \E parsed \in SignalFrames :
        /\ pubQ' = issue(pubQ, procOf(s), signalCommand(s, frames + 1, parsed))
        /\ frameLog' = Append(frameLog, [s |-> s, json |-> TRUE, parsed |-> parsed])
    /\ frames' = frames + 1
    /\ UNCHANGED <<wsState, token, meta, clients, subscribedRooms, joinPc, closePc,
                   handlers, subQ, cliQ, redisSets, redisSubs, busQ, inbox, msgTasks,
                   history, nextId, now, failures, pubLog, closeRuns, joinErr, persistErr,
                   chatLog, window, subCount>>

\* lines 213-214: pub.publish of a signal replied; the handler returns
signalPublish(p) ==
    /\ pubQ[p] # <<>> /\ Head(pubQ[p]).kind = "signal"
    /\ Published(p)
    /\ UNCHANGED <<wsState, token, meta, clients, subscribedRooms, joinPc, closePc,
                   handlers, subQ, cliQ, redisSets, redisSubs, inbox, msgTasks, history,
                   nextId, now, frames, frameLog, failures, closeRuns, joinErr, persistErr,
                   chatLog, window, subCount>>

\* line 242: the pong event
pongEvent(ts) == [type |-> "pong", ts |-> ts]

\* lines 199-201, 241-243: a ping frame arrives; the pong is sent on the same socket
ping(s) ==
    /\ handlers[s] /\ wsState[s] = "OPEN"
    /\ frames < MaxEvents
    /\ inbox' = wsSend(inbox, s, 0, JSONstringify(pongEvent(now)))
    /\ frameLog' = Append(frameLog, [s |-> s, json |-> TRUE, parsed |-> [type |-> "ping"]])
    /\ frames' = frames + 1
    /\ UNCHANGED <<wsState, token, meta, clients, subscribedRooms, joinPc, closePc,
                   handlers, subQ, cliQ, pubQ, redisSets, redisSubs, busQ, msgTasks,
                   history, nextId, now, failures, pubLog, closeRuns, joinErr, persistErr,
                   chatLog, window, subCount>>

\* the frames no branch handles: text that is not JSON, and an event of another type
OtherFrames ==
    {[json |-> FALSE, parsed |-> [type |-> ""]],
     [json |-> TRUE, parsed |-> [type |-> "typing"]]}

\* lines 199-201, 244-246: JSON.parse throws and the catch block logs, or no branch
\* matches the type
ignored(s) ==
    /\ handlers[s] /\ wsState[s] = "OPEN"
    /\ frames < MaxEvents
    /\ \E f \in OtherFrames :
        frameLog' = Append(frameLog, [s |-> s, json |-> f.json, parsed |-> f.parsed])
    /\ frames' = frames + 1
    /\ UNCHANGED <<wsState, token, meta, clients, subscribedRooms, joinPc, closePc,
                   handlers, subQ, cliQ, pubQ, redisSets, redisSubs, busQ, inbox, msgTasks,
                   history, nextId, now, failures, pubLog, closeRuns, joinErr, persistErr,
                   chatLog, window, subCount>>

(* ---------------- sub.on("message") ---------------- *)
\* (variant: the room of the connection is not compared)
recipients_anyRoom(p, room) ==
    {s \in clients[p] : wsState[s] = "OPEN"}

\* (variant: the state of the transport is not looked at)
recipients_closedToo(p, room) ==
    {s \in clients[p] : meta[s].room = room}

\* the local connections a bus message is forwarded to (lines 148-149)
recipients(p, room) ==
    {s \in clients[p] : meta[s].room = room /\ wsState[s] = "OPEN"}

\* lines 144-153: a pushed message is parsed and forwarded to the room's local sockets
subOnMessage(p) ==
    /\ busQ[p] # <<>>
    /\ LET m == Head(busQ[p])
           msg == JSONparse(m.data)
           room == msg.room
       IN  inbox' = [s \in Sessions |->
                        IF s \in recipients(p, room)
                        THEN Append(inbox[s], [seq |-> m.seq, data |-> JSONstringify(msg)])
                        ELSE inbox[s]]
    /\ busQ' = [busQ EXCEPT ![p] = Tail(@)]
    /\ UNCHANGED <<wsState, token, meta, clients, subscribedRooms, joinPc, closePc,
                   handlers, subQ, cliQ, pubQ, redisSets, redisSubs, msgTasks, history,
                   nextId, now, frames, frameLog, failures, pubLog, closeRuns, joinErr,
                   persistErr, chatLog, window, subCount>>

(* ---------------- specifications ---------------- *)
\* joins, disconnects, broker failures during a join, and the bus delivery
Next ==
    \/ \E s \in Sessions : Connection(s)
    \/ \E s \in Sessions : ensureSubscribed(s)
    \/ \E s \in Sessions : addUserSadd(s)
    \/ \E s \in Sessions : addUserSmembers(s)
    \/ \E s \in Sessions : addUserPublish(s)
    \/ \E s \in Sessions : welcome(s)
    \/ \E s \in Sessions : joinCatch(s)
    \/ \E s \in Sessions : close(s)
    \/ \E s \in Sessions : removeUserSrem(s)
    \/ \E s \in Sessions : removeUserSmembers(s)
    \/ \E s \in Sessions : removeUserPublish(s)
    \/ \E p \in Procs : subOnMessage(p)

Spec == Init /\ [][Next]_vars

\* no join handler is between two awaits
settled == \A t \in Sessions : joinPc[t] \in {"none", "rejected", "joined", "failed"}

\* the s-th user of the list (cyclically)
userOf(s) == UserList[((s - 1) % Len(UserList)) + 1]

\* chat traffic: each connection comes with a valid token of its own user and arrives
\* when the earlier joins have finished; sessions disconnect at any time; chat frames
\* arrive on joined sessions; the history store may fail
ChatNext ==
    \/ \E s \in Sessions : settled /\ Connection(s) /\ token'[s] = userOf(s)
    \/ \E s \in Sessions : ensureSubscribed(s)
    \/ \E s \in Sessions : addUserSadd(s)
    \/ \E s \in Sessions : addUserSmembers(s)
    \/ \E s \in Sessions : addUserPublish(s)
    \/ \E s \in Sessions : welcome(s)
    \/ \E s \in Sessions : close(s)
    \/ \E s \in Sessions : removeUserSrem(s)
    \/ \E s \in Sessions : removeUserSmembers(s)
    \/ \E s \in Sessions : removeUserPublish(s)
    \/ \E s \in Sessions : message(s)
    \/ \E task \in msgTasks : messageCreate(task)
    \/ \E task \in msgTasks : messageCatch(task)
    \/ \E p \in Procs : messagePublish(p)
    \/ \E p \in Procs : subOnMessage(p)

ChatSpec == Init /\ [][ChatNext]_vars

\* inbound events of every kind on joined sessions: each connection comes with a valid
\* token of its own user, arrives when the earlier joins have finished and stays
\* connected; no broker or store failure
EventNext ==
    \/ \E s \in Sessions : settled /\ Connection(s) /\ token'[s] = userOf(s)
    \/ \E s \in Sessions : ensureSubscribed(s)
    \/ \E s \in Sessions : addUserSadd(s)
    \/ \E s \in Sessions : addUserSmembers(s)
    \/ \E s \in Sessions : addUserPublish(s)
    \/ \E s \in Sessions : welcome(s)
    \/ \E s \in Sessions : message(s)
    \/ \E task \in msgTasks : messageCreate(task)
    \/ \E p \in Procs : messagePublish(p)
    \/ \E s \in Sessions : signal(s)
    \/ \E p \in Procs : signalPublish(p)
    \/ \E s \in Sessions : ping(s)
    \/ \E s \in Sessions : ignored(s)
    \/ \E p \in Procs : subOnMessage(p)

EventSpec == Init /\ [][EventNext]_vars

(* ---------------- claims ---------------- *)
\* ---- shared vocabulary ----
registered(s) == meta[s].proc # 0

usersKey(s) == redisRoomUsersKey(meta[s].room)

members(room) == redisSets[redisRoomUsersKey(room)]

\* no join and no leave is in flight
quiescent == settled /\ \A s \in Sessions : closePc[s] \in {"idle", "done"}

\* the sessions of a room whose transport is open
openSessions(room) ==
    {s \in Sessions : registered(s) /\ meta[s].room = room /\ wsState[s] = "OPEN"}

\* the publish a written frame forwards
pubOf(e) == pubLog[e.seq]

\* the bus frames written to a connection
forwardedTo(s) == {i \in DOMAIN inbox[s] : inbox[s][i].seq # 0}

\* this step is Redis executing a publish; the entry it logs
publishStep == Len(pubLog') = Len(pubLog) + 1

published == pubLog'[Len(pubLog')]

\* this step is process p handling the message at the head of its sub connection
deliverStep(p) == busQ[p] # <<>> /\ busQ'[p] = Tail(busQ[p])

\* a publish of the given kinds reaches the sub connection of every process that
\* holds a session of the room with an open transport
QueuedForRoom(kinds) ==
    publishStep /\ published.kind \in kinds =>
        \A s \in Sessions :
            /\ registered(s) /\ wsState[s] = "OPEN"
            /\ redisRoomChannel(meta[s].room) = published.channel
            /\ \/ joinPc[s] = "joined"
               \/ s = published.s
            => /\ Len(busQ'[procOf(s)]) = Len(busQ[procOf(s)]) + 1
               /\ busQ'[procOf(s)][Len(busQ'[procOf(s)])] =
                      [seq |-> published.seq, data |-> published.message]

\* a bus message of the given kinds handled by a process is written, as published, to
\* every session of its room on that process whose transport is open
ForwardedInRoom(kinds) ==
    \A p \in Procs :
        deliverStep(p) /\ pubOf(Head(busQ[p])).kind \in kinds =>
            \A s \in Sessions :
                /\ registered(s) /\ procOf(s) = p /\ wsState[s] = "OPEN"
                /\ redisRoomChannel(meta[s].room) = pubOf(Head(busQ[p])).channel
                => inbox'[s] = Append(inbox[s],
                       [seq |-> Head(busQ[p]).seq,
                        data |-> pubOf(Head(busQ[p])).message])

\* ---- C1 ----
\* C1: once no join or leave is in flight, the membership set of every room is
\* exactly the set of identities with an open session in the room.  Stated for
\* runs without broker failure in which every closed session ran its close handler.
C1_MembershipIsOpenIdentities ==
    /\ quiescent
    /\ failures = 0
    /\ \A s \in Sessions : registered(s) /\ wsState[s] = "CLOSED" => closeRuns[s] = 1
    => \A r \in Rooms : members(r) = {meta[s].username : s \in openSessions(r)}

\* ---- C3 ----
\* C3: a join of an identity followed by its leave, with no other change of the
\* room's set in between, leaves the set equal to the set before the join.
C3_JoinLeaveRestores ==
    [][\A s \in Sessions :
          closePc[s] = "srem" /\ closePc'[s] = "smembers" /\ window[s].open
          => redisSets'[usersKey(s)] = window[s].pre]_vars

\* ---- C4 ----
presencePubs(room) ==
    {i \in DOMAIN pubLog : /\ pubLog[i].channel = redisRoomChannel(room)
                           /\ pubLog[i].kind \in {"join", "close"}}

lastPresence(room) ==
    JSONparse(pubLog[CHOOSE i \in presencePubs(room) :
                        \A j \in presencePubs(room) : j <= i].message)

\* C4: once all joins and leaves have completed (none failed), the last presence
\* event published on a room's channel carries the room's current membership set.
C4_LastPresenceIsCurrent ==
    quiescent /\ failures = 0
    => \A r \in Rooms : presencePubs(r) # {} => lastPresence(r).users = members(r)

\* ---- C5 ----
\* the snapshot a join / leave publishes, when no other session changed the set
\* between its SADD / SREM and its SMEMBERS: the set before, with / without the identity
newCmd(p) == pubQ'[p][Len(pubQ'[p])]

C5_Snapshot ==
    \A s \in Sessions :
        /\ joinPc[s] = "smembers" /\ joinPc'[s] = "publish" /\ window[s].open
           => JSONparse(newCmd(procOf(s)).message) =
                  presenceEvent(meta[s].room, window[s].pre \cup {meta[s].username})
        /\ closePc[s] = "smembers" /\ closePc'[s] = "publish" /\ window[s].open
           => JSONparse(newCmd(procOf(s)).message) =
                  presenceEvent(meta[s].room, window[s].pre \ {meta[s].username})

\* what a connection received from the bus is what was published
C5_AsPublished ==
    \A s \in Sessions : \A i \in forwardedTo(s) :
        pubOf(inbox[s][i]).kind \in {"join", "close"} =>
            /\ inbox[s][i].data = pubOf(inbox[s][i]).message
            /\ JSONparse(inbox[s][i].data).type = "presence"
            /\ JSONparse(inbox[s][i].data).room = meta[s].room

\* C5: the presence event of a join carries the updated full set and reaches every
\* member session with an open transport and the joining session; the presence event
\* of a disconnect carries the set without the member and reaches the remaining ones.
C5_PresenceReachesMembers ==
    /\ []C5_AsPublished
    /\ [][C5_Snapshot /\ QueuedForRoom({"join", "close"})
          /\ ForwardedInRoom({"join", "close"})]_vars

\* a session received the join of another session and then its leave, each carrying
\* the full set, and the other session received its own join
C5_Witness ==
    \E s, t \in Sessions :
        /\ s # t /\ meta[s].username # meta[t].username
        /\ \E i, j \in forwardedTo(s) :
            /\ i < j
            /\ pubOf(inbox[s][i]).kind = "join" /\ pubOf(inbox[s][i]).s = t
            /\ JSONparse(inbox[s][i].data).users = {meta[s].username, meta[t].username}
            /\ pubOf(inbox[s][j]).kind = "close" /\ pubOf(inbox[s][j]).s = t
            /\ JSONparse(inbox[s][j].data).users = {meta[s].username}
        /\ \E k \in forwardedTo(t) :
            pubOf(inbox[t][k]).kind = "join" /\ pubOf(inbox[t][k]).s = t

\* ---- C6 ----
\* C6: an event published once is pushed at most once to a process and written at
\* most once to a connection, also when overlapping joins both sent SUBSCRIBE.
C6_NoDuplicateDelivery ==
    /\ \A s \in Sessions : \A i, j \in forwardedTo(s) :
          i # j => inbox[s][i].seq # inbox[s][j].seq
    /\ \A p \in Procs : \A i, j \in DOMAIN busQ[p] :
          i # j => busQ[p][i].seq # busQ[p][j].seq

\* two overlapping joins on one process both sent SUBSCRIBE for the channel, and a
\* session of the room received the join events of both
C6_Witness ==
    \E s, t \in Sessions :
        /\ s # t /\ procOf(s) = procOf(t) /\ meta[s].room = meta[t].room
        /\ registered(s)
        /\ subCount[procOf(s)][redisRoomChannel(meta[s].room)] = 2
        /\ \E i, j \in forwardedTo(s) :
              pubOf(inbox[s][i]).s = s /\ pubOf(inbox[s][j]).s = t

\* ---- C7 ----
\* C7: for every registered session whose transport has closed, the close handler
\* (unregister, leave, publish) has run exactly once, whenever the close occurred.
\* Stated at sessions whose connection handler has finished without failure.
C7_TeardownOncePerSession ==
    \A s \in Sessions :
        registered(s) /\ wsState[s] = "CLOSED" /\ joinPc[s] = "joined"
        => closeRuns[s] = 1

\* ---- C8 ----
\* C8: after a broker operation of its join failed, a connection is not left
\* registered with an open transport.
C8_FailedJoinIsClosed ==
    \A s \in Sessions :
        joinErr[s] => ~(s \in clients[procOf(s)] /\ wsState[s] = "OPEN")

\* ---- C9 ----
badToken(s) == token[s] \in {"missing", "invalid"}

C9_Rejected ==
    \A s \in Sessions : badToken(s) =>
        /\ Len(inbox[s]) = 1
        /\ JSONparse(inbox[s][1].data).type = "error"
        /\ wsState[s] = "CLOSED"
        /\ meta[s] = NoMeta
        /\ \A p \in Procs : s \notin clients[p]
        /\ joinPc[s] = "rejected" /\ closePc[s] = "idle" /\ ~handlers[s]

C9_NoEffect ==
    \A s \in Sessions :
        token[s] = "" /\ badToken(s)'
        => UNCHANGED <<clients, meta, subscribedRooms, redisSets, redisSubs, subQ, cliQ,
                       pubQ, busQ, pubLog, nextId>>

\* C9: a connection whose token is missing or fails verification gets exactly one
\* error event and is closed; it is never registered, and its handling changes
\* neither the presence store nor the subscriptions and publishes nothing.
C9_BadTokenRejected == []C9_Rejected /\ [][C9_NoEffect]_vars

\* a connection with an unverifiable token and one with no token were rejected
\* while another session is joined
C9_Witness ==
    /\ \E s \in Sessions : token[s] = "invalid" /\ joinPc[s] = "rejected"
    /\ \E t \in Sessions : joinPc[t] = "joined" /\ wsState[t] = "OPEN"

\* ---- C2 ----
isChat(e) == e.seq # 0 /\ pubOf(e).kind = "message"

\* a chat message written to a connection is the chatMessage the gateway built (id,
\* text, messageType, ts), as published, and the connection is in its room
C2_AsAssigned ==
    \A s \in Sessions : \A i \in DOMAIN inbox[s] :
        isChat(inbox[s][i]) =>
            /\ inbox[s][i].data = pubOf(inbox[s][i]).message
            /\ JSONparse(inbox[s][i].data) \in chatLog
            /\ JSONparse(inbox[s][i].data).room = meta[s].room
            /\ registered(s)

\* C2: a chat message is delivered as assigned to every session of the sender's
\* room whose transport is open, and to no session of another room.
C2_ChatDeliveredInRoomOnly ==
    /\ []C2_AsAssigned
    /\ [][QueuedForRoom({"message"}) /\ ForwardedInRoom({"message"})]_vars

\* a session other than the sender, on the other process, received the chat message
C2_Witness ==
    \E s \in Sessions : \E i \in DOMAIN inbox[s] :
        /\ isChat(inbox[s][i])
        /\ pubOf(inbox[s][i]).s # s
        /\ procOf(pubOf(inbox[s][i]).s) # procOf(s)

\* ---- C10 ----
\* C10: a chat message whose history append failed is still published.
C10_PublishedDespitePersistFailure ==
    \A m \in persistErr :
        \/ \E p \in Procs : \E i \in DOMAIN pubQ[p] : pubQ[p][i].message = JSONstringify(m)
        \/ \E i \in DOMAIN pubLog : pubLog[i].message = JSONstringify(m)

\* ---- C11 ----
\* a frame that is not JSON, or a `message` frame without messageType
malformedFrame(f) ==
    \/ ~f.json
    \/ f.parsed.type = "message" /\ "messageType" \notin DOMAIN f.parsed

\* C11: a malformed inbound frame is never published and never delivered, and its
\* sender stays open and registered.
C11_MalformedFrameDropped ==
    \A n \in DOMAIN frameLog : malformedFrame(frameLog[n]) =>
        /\ \A i \in DOMAIN pubLog : pubLog[i].n # n
        /\ \A p \in Procs : \A i \in DOMAIN pubQ[p] : pubQ[p][i].n # n
        /\ \A s \in Sessions : \A i \in forwardedTo(s) : pubOf(inbox[s][i]).n # n
        /\ wsState[frameLog[n].s] = "OPEN"
        /\ frameLog[n].s \in clients[procOf(frameLog[n].s)]

\* ---- C12 ----
\* this step is the gateway receiving an inbound frame; the frame
frameStep == Len(frameLog') = Len(frameLog) + 1

arrived == frameLog'[Len(frameLog')]

isPing(f) == f.json /\ f.parsed.type = "ping"

pingsOf(s) == {n \in DOMAIN frameLog : frameLog[n].s = s /\ isPing(frameLog[n])}

pongsTo(s) == {i \in DOMAIN inbox[s] : JSONparse(inbox[s][i].data).type = "pong"}

C12_PongPerPing ==
    \A s \in Sessions : Cardinality(pongsTo(s)) = Cardinality(pingsOf(s))

C12_PingStep ==
    frameStep /\ isPing(arrived) =>
        /\ inbox' = [inbox EXCEPT ![arrived.s] =
               Append(@, [seq |-> 0, data |-> JSONstringify(pongEvent(now))])]
        /\ UNCHANGED <<pubQ, pubLog, busQ, history, msgTasks>>

\* C12: each ping of a joined session is answered by exactly one pong on the same
\* connection; nothing is published and nothing is sent to another connection.
C12_OnePongPerPing == []C12_PongPerPing /\ [][C12_PingStep]_vars

\* a session got a pong after it had received the join of another session of its
\* room, which got none
C12_Witness ==
    \E s, t \in Sessions :
        /\ s # t /\ meta[s].room = meta[t].room /\ joinPc[t] = "joined"
        /\ pongsTo(t) = {}
        /\ \E i \in forwardedTo(s) : \E j \in pongsTo(s) :
              i < j /\ pubOf(inbox[s][i]).kind = "join" /\ pubOf(inbox[s][i]).s = t

\* ---- C13 ----
\* the publishes made for inbound frames (n: the frame's receipt number)
eventPubs == {i \in DOMAIN pubLog : pubLog[i].n # 0}

\* C13: for two chat or signalling frames received from one connection, the publish
\* for the earlier frame happens before the publish for the later one.
C13_PublishedInReceiptOrder ==
    \A i, j \in eventPubs :
        pubLog[i].s = pubLog[j].s /\ pubLog[i].n < pubLog[j].n => i < j

\* ---- C16 ----
\* the publish commands issued so far: executed, or waiting on a pub connection
issuedPubs ==
    {pubLog[i] : i \in DOMAIN pubLog}
        \cup UNION {{[seq |-> 0, proc |-> p, kind |-> pubQ[p][i].kind, s |-> pubQ[p][i].s,
                      n |-> pubQ[p][i].n, channel |-> pubQ[p][i].channel,
                      message |-> pubQ[p][i].message] : i \in DOMAIN pubQ[p]} : p \in Procs}

\* C16: a published chat message carries the sender's handshake identity as `user`,
\* a published signal carries it as `from`, both carry the sender's handshake room,
\* whatever the frame said; every event is published on the channel of the room it
\* carries.
C16_StampedAtHandshake ==
    \A e \in issuedPubs :
        LET msg == JSONparse(e.message)
        IN  /\ e.channel = redisRoomChannel(msg.room)
            /\ e.kind \in {"message", "signal"} => msg.room = meta[e.s].room
            /\ e.kind = "message" => msg.user = meta[e.s].username
            /\ e.kind = "signal" => msg.from = meta[e.s].username

\* the frame named another user / sender and another room
spoofed(f) ==
    /\ "room" \in DOMAIN f.parsed /\ f.parsed.room = "lobby"
    /\ \/ "from" \in DOMAIN f.parsed /\ f.parsed.from = "mallory"
       \/ "user" \in DOMAIN f.parsed /\ f.parsed.user = "mallory"

\* a chat message and a signal were published for frames that named another identity
\* and another room
C16_Witness ==
    \E i, j \in eventPubs :
        /\ pubLog[i].kind = "message" /\ spoofed(frameLog[pubLog[i].n])
        /\ pubLog[j].kind = "signal" /\ spoofed(frameLog[pubLog[j].n])

\* ---- C17 ----
isSignal(f) == f.json /\ f.parsed.type \in {"webrtc-offer", "webrtc-answer", "webrtc-ice"}

\* how many publish commands, queued or executed, were issued for frame n
pubsFor(n) ==
    Cardinality({i \in DOMAIN pubLog : pubLog[i].n = n})
        + Cardinality({i \in DOMAIN pubQ[procOf(frameLog[n].s)] :
                          pubQ[procOf(frameLog[n].s)][i].n = n})

C17_OnePublish ==
    \A n \in DOMAIN frameLog : isSignal(frameLog[n]) =>
        /\ pubsFor(n) = 1
        /\ \A e \in issuedPubs :
              e.n = n => e.channel = redisRoomChannel(meta[frameLog[n].s].room)

C17_SignalStep ==
    frameStep /\ isSignal(arrived) =>
        /\ pubQ' = [pubQ EXCEPT ![procOf(arrived.s)] = Append(@, newCmd(procOf(arrived.s)))]
        /\ newCmd(procOf(arrived.s)).n = Len(frameLog')
        /\ UNCHANGED <<history, msgTasks, inbox, pubLog, busQ>>

\* C17: handling a signalling frame issues exactly one publish, on the channel of the
\* sender's room, appends nothing to the history and writes nothing to the sender's
\* connection.
C17_SignalPublishedOnce == []C17_OnePublish /\ [][C17_SignalStep]_vars

\* a signal was published, reached a session on another process, and nothing was
\* stored
C17_Witness ==
    \E s \in Sessions : \E i \in forwardedTo(s) :
        /\ pubOf(inbox[s][i]).kind = "signal"
        /\ procOf(pubOf(inbox[s][i]).s) # procOf(s)
        /\ history = <<>>

\* ---- C14 ----
\* the welcome events written to a connection
welcomesTo(s) ==
    {i \in DOMAIN inbox[s] : /\ inbox[s][i].seq = 0
                             /\ JSONparse(inbox[s][i].data).type = "system"}

\* C14: the membership snapshot in the presence event of a join, and the one in the
\* welcome event, contain the joining identity, also when other joins and leaves on
\* the room overlap with the join.
C14_JoinSnapshotHasJoiner ==
    /\ \A e \in issuedPubs :
          e.kind = "join" => meta[e.s].username \in JSONparse(e.message).users
    /\ \A s \in Sessions : \A i \in welcomesTo(s) :
          meta[s].username \in JSONparse(inbox[s][i].data).users

\* ---- C15 ----
\* C15: a process sends SUBSCRIBE for a room's channel at most once, also when the
\* handshakes of several joiners of the room overlap.
C15_SubscribedAtMostOnce ==
    \A p \in Procs : \A r \in Rooms : subCount[p][redisRoomChannel(r)] <= 1

\* ---- C18 ----
\* C18: handling a message received from the bus publishes nothing, leaves the
\* connection registry, the subscribed-room set, the subscriptions and the presence
\* store unchanged, and writes only to connections registered on the process, in the
\* room the message carries, with an open transport.
C18_BusPathOnlyForwards ==
    [][\A p \in Procs : deliverStep(p) =>
          /\ UNCHANGED <<pubQ, pubLog, subQ, cliQ, clients, subscribedRooms, redisSubs,
                         redisSets>>
          /\ \A s \in Sessions : inbox'[s] # inbox[s] =>
                /\ s \in clients[p]
                /\ meta[s].room = JSONparse(Head(busQ[p]).data).room
                /\ wsState[s] = "OPEN"]_vars

\* a message for one room was handled on a process after a connection of another
\* room was registered there (it had received its own join), and was written to the
\* connection of its room only
C18_Witness ==
    \E s, t \in Sessions :
        /\ registered(s) /\ procOf(s) = procOf(t) /\ meta[s].room # meta[t].room
        /\ wsState[t] = "OPEN"
        /\ \E i \in forwardedTo(t) : \E j \in forwardedTo(s) :
              /\ pubOf(inbox[t][i]).s = t
              /\ inbox[s][j].seq > inbox[t][i].seq
              /\ \A k \in forwardedTo(t) : inbox[t][k].seq # inbox[s][j].seq

\* ---- C19 ----
\* C19: no event forwarded from the bus is written to a connection before its
\* welcome event.
C19_WelcomeFirst ==
    \A s \in Sessions : \A i \in forwardedTo(s) : \E j \in welcomesTo(s) : j < i

\* ---- C20 ----
C20_Subscribed ==
    /\ \A p \in Procs : subscribedRooms[p] \subseteq redisSubs[p]
    /\ \A s \in Sessions :
          welcomesTo(s) # {} => redisRoomChannel(meta[s].room) \in subscribedRooms[procOf(s)]
    /\ \A e \in issuedPubs :
          e.kind = "join" => e.channel \in subscribedRooms[e.proc]

C20_NeverRemoved == \A p \in Procs : subscribedRooms[p] \subseteq subscribedRooms'[p]

\* C20: a channel is in a process's subscribed-room set only when the broker has
\* subscribed the process to it; a session that was sent its welcome is in a room
\* whose channel is in the set; the presence publish of a join is issued only with
\* the channel in the set; a channel is never removed from the set.
C20_SubscriptionInPlace == []C20_Subscribed /\ [][C20_NeverRemoved]_vars

\* two sessions of one room on one process were welcomed, the second reusing the
\* subscription of the first
C20_Witness ==
    \E s, t \in Sessions :
        /\ s # t /\ registered(s) /\ procOf(s) = procOf(t) /\ meta[s].room = meta[t].room
        /\ welcomesTo(s) # {} /\ welcomesTo(t) # {}
        /\ subCount[procOf(s)][redisRoomChannel(meta[s].room)] = 1

====
